---- MODULE Spec2Model ----
(***************************************************************************)
(* Model of src/tiled/main.cpp: the command line handler, the headless     *)
(* map export (writer resolution, load, write, release) and the start of   *)
(* the GUI.  Strings are sequences of one-character strings, so that the   *)
(* suffix extraction and the case-insensitive comparisons are computed.    *)
(***************************************************************************)
EXTENDS Integers, Sequences, FiniteSets, TLC

\* ------------------------------------------------------------------ bounds
MaxFiles == 4
MaxWriters == 3
MaxTilesets == 1
MaxRepeat == 2

\* ----------------------------------------------------------------- strings
UpperCase == <<"A","B","C","D","E","F","G","H","I","J","K","L","M",
               "N","O","P","Q","R","S","T","U","V","W","X","Y","Z">>
LowerCase == <<"a","b","c","d","e","f","g","h","i","j","k","l","m",
               "n","o","p","q","r","s","t","u","v","w","x","y","z">>

CaseSensitive == "Qt::CaseSensitive"
CaseInsensitive == "Qt::CaseInsensitive"

\* the lower-case letter of each upper-case letter
LowerOf ==
    [u \in { UpperCase[i] : i \in 1..Len(UpperCase) } |->
        LowerCase[CHOOSE i \in 1..Len(UpperCase) : UpperCase[i] = u]]

ToLower(c) == IF c \in DOMAIN LowerOf THEN LowerOf[c] ELSE c

Fold(s, cs) ==
    IF cs = CaseInsensitive THEN [i \in 1..Len(s) |-> ToLower(s[i])] ELSE s

\* QString comparison under a case sensitivity
StrEq(a, b, cs) == Fold(a, cs) = Fold(b, cs)

\* does sub occur in s at position from (1-based)
MatchAt(s, sub, from) ==
    /\ from + Len(sub) - 1 <= Len(s)
    /\ \A k \in 1..Len(sub) : s[from + k - 1] = sub[k]

RECURSIVE IndexOf(_, _, _)
\* QString::indexOf: first position >= from where sub occurs, 0 if none
IndexOf(s, sub, from) ==
    IF from + Len(sub) - 1 > Len(s) THEN 0
    ELSE IF MatchAt(s, sub, from) THEN from
    ELSE IndexOf(s, sub, from + 1)

\* QString::contains(sub, cs)
StrContains(s, sub, cs) == IndexOf(Fold(s, cs), Fold(sub, cs), 1) # 0

\* QStringList::contains(str, cs): some element equals str
ListContains(list, str, cs) ==
    \E i \in 1..Len(list) : StrEq(list[i], str, cs)

\* QStringList::filter(str, cs): the elements that contain str
ListFilter(list, str, cs) ==
    SelectSeq(list, LAMBDA e : StrContains(e, str, cs))

RECURSIVE LastIndexOfChar(_, _, _)
LastIndexOfChar(s, c, from) ==
    IF from = 0 THEN 0
    ELSE IF s[from] = c THEN from
    ELSE LastIndexOfChar(s, c, from - 1)

\* QFileInfo(path).fileName(): what follows the last separator
FileName(path) ==
    SubSeq(path, LastIndexOfChar(path, "/", Len(path)) + 1, Len(path))

\* QFileInfo::suffix in place of completeSuffix: what follows the last dot
LastSuffix(path) ==
    LET name == FileName(path)
        dot  == LastIndexOfChar(name, ".", Len(name))
    IN  IF dot = 0 THEN <<>> ELSE SubSeq(name, dot + 1, Len(name))

\* QFileInfo(path).completeSuffix(): what follows the first dot of the
\* file name, the empty string when the file name has no dot
completeSuffix(path) ==
    LET name == FileName(path)
        dot  == IndexOf(name, <<".">>, 1)
    IN  IF dot = 0 THEN <<>> ELSE SubSeq(name, dot + 1, Len(name))

\* ------------------------------------------------------------------ inputs
Level1TmxBak == <<"l","e","v","e","l","1",".","t","m","x",".","b","a","k">>
StarDotTMX   == <<"*",".","T","M","X">>
DirTmx       == <<"d",".","x","/","t","m","x">>

\* the positional arguments a command line may carry
Strings == {Level1TmxBak, StarDotTMX, DirTmx}

PatTmx    == <<"*",".","t","m","x">>
PatTmxBak == <<"*",".","t","m","x",".","b","a","k">>
PatJs     == <<"*",".","j","s">>
PatTmxMix == <<"*",".","T","m","x">>

\* the nameFilters() a writer plugin may declare
NameFilterLists == { <<PatTmx>>, <<PatTmxBak>>, <<PatJs, PatTmxMix>> }

RECURSIVE SeqsUpTo(_, _)
SeqsUpTo(S, n) ==
    IF n = 0 THEN { <<>> }
    ELSE LET shorter == SeqsUpTo(S, n - 1)
         IN  shorter \cup { Append(q, x) : q \in shorter, x \in S }

\* what PluginManager::interfaces<MapWriterInterface>() may return; a writer
\* is identified by its position in the list
Registries == SeqsUpTo(NameFilterLists, MaxWriters)

\* the options CommandLineHandler() registers, by name
VersionNames == {"-v", "--version"}
QuitNames == {"--quit"}
DisableOpenGLNames == {"--disable-opengl"}
ExportMapNames == {"--export-map"}
RegisteredOptions ==
    VersionNames \cup QuitNames \cup DisableOpenGLNames \cup ExportMapNames
UnknownOptions == {"--bogus"}

NoWriter == 0
NoString == <<"<null>">>

VARIABLES
    pc,            \* position in main()
    commandLine,   \* the CommandLineHandler object
    parsed,        \* "pending", "ok" or "failed": result of parse()
    useOpenGL,     \* Preferences::useOpenGL
    writers,       \* local: the list of writer plugins
    filter,        \* local: the filter string, NoString when the pointer is 0
    sourceFile,    \* local
    targetFile,    \* local
    suffix,        \* local
    pos,           \* position of the foreach over writers
    chosenWriter,  \* local: index of the chosen writer, NoWriter when 0
    map,           \* local: the Map* and what became of the objects
    success,       \* local: result of write
    exitCode,      \* process exit status, -1 while running
    warnings,      \* what was printed by qWarning, in order
    trace,         \* calls made to collaborators, in order
    seen           \* which options the argument list contained so far

vars == <<pc, commandLine, parsed, useOpenGL, writers, filter, sourceFile,
          targetFile, suffix, pos, chosenWriter, map, success, exitCode,
          warnings, trace, seen>>

locals == <<writers, filter, sourceFile, targetFile, suffix, pos,
            chosenWriter, map, success>>

\* a call to a collaborator: its name, the writer it is made on (0 when
\* none) and the state of the map pointer when it is made
Event(e, w) == [e |-> e, w |-> w, m |-> map.ptr]

NoMap == [ptr |-> "null", allocs |-> 0, frees |-> 0, tilesets |-> <<>>]

Init ==
    /\ pc = "parse"
    /\ commandLine = [quit |-> FALSE, showedVersion |-> FALSE,
                      disableOpenGL |-> FALSE, exportMap |-> FALSE,
                      filesToOpen |-> <<>>]
    /\ parsed = "pending"
    /\ useOpenGL = TRUE
    /\ writers = <<>>
    /\ filter = NoString
    /\ sourceFile = NoString
    /\ targetFile = NoString
    /\ suffix = NoString
    /\ pos = 0
    /\ chosenWriter = NoWriter
    /\ map = NoMap
    /\ success = FALSE
    /\ exitCode = -1
    /\ warnings = <<>>
    /\ trace = <<>>
    /\ seen = [version |-> 0, quit |-> FALSE, unknown |-> FALSE]

\* -------------------------------------------------- CommandLineHandler
\* showVersion without the showedVersion guard
showVersionUnguarded(cl) ==
    [cl  |-> [cl EXCEPT !.showedVersion = TRUE, !.quit = TRUE],
     out |-> <<"version">>]

\* each handler maps the handler object to its new value and its output
showVersion(cl) ==
    IF ~cl.showedVersion
    THEN [cl  |-> [cl EXCEPT !.showedVersion = TRUE, !.quit = TRUE],
          out |-> <<"version">>]
    ELSE [cl |-> cl, out |-> <<>>]

justQuit(cl) == [cl |-> [cl EXCEPT !.quit = TRUE], out |-> <<>>]

setDisableOpenGL(cl) == [cl |-> [cl EXCEPT !.disableOpenGL = TRUE], out |-> <<>>]

setExportMap(cl) == [cl |-> [cl EXCEPT !.exportMap = TRUE], out |-> <<>>]

\* the handler CommandLineHandler() registers under an option name
HandlerOf(name, cl) ==
    CASE name \in VersionNames       -> showVersion(cl)
      [] name \in QuitNames          -> justQuit(cl)
      [] name \in DisableOpenGLNames -> setDisableOpenGL(cl)
      [] name \in ExportMapNames     -> setExportMap(cl)

\* parse(): a registered option invokes its handler
ParseOption(name) ==
    /\ pc = "parse"
    /\ name \in RegisteredOptions
    /\ name \in VersionNames => seen.version < MaxRepeat
    /\ LET r == HandlerOf(name, commandLine)
       IN  /\ commandLine' = r.cl
           /\ warnings' = warnings \o r.out
    /\ seen' = [seen EXCEPT
                  !.version = IF name \in VersionNames THEN @ + 1 ELSE @,
                  !.quit = @ \/ name \in QuitNames]
    /\ UNCHANGED <<pc, parsed, useOpenGL, locals, exitCode, trace>>

\* parse(): any other token is a positional argument, kept in order
ParsePositional(s) ==
    /\ pc = "parse"
    /\ Len(commandLine.filesToOpen) < MaxFiles
    /\ commandLine' = [commandLine EXCEPT !.filesToOpen = Append(@, s)]
    /\ UNCHANGED <<pc, parsed, useOpenGL, locals, exitCode, warnings, trace, seen>>

\* parse(): an option that is not registered makes parsing fail
ParseUnknown(name) ==
    /\ pc = "parse"
    /\ name \notin RegisteredOptions
    /\ parsed' = "failed"
    /\ warnings' = Append(warnings, "unknown option")
    /\ seen' = [seen EXCEPT !.unknown = TRUE]
    /\ pc' = "main"
    /\ UNCHANGED <<commandLine, useOpenGL, locals, exitCode, trace>>

\* parse(): the end of the argument list, parsing succeeded
ParseDone ==
    /\ pc = "parse"
    /\ parsed' = "ok"
    /\ pc' = "main"
    /\ UNCHANGED <<commandLine, useOpenGL, locals, exitCode, warnings, trace, seen>>

\* ------------------------------------------------------------------ main
\* the value main returns when parse() returned false
ParseFailureStatus == 0

\* the value main returns when the handler asks to quit
QuitStatus == 0

\* main, from the call of parse to loadPlugins
MainAfterParse ==
    /\ pc = "main"
    /\ IF parsed = "failed"
       THEN /\ pc' = "exit"
            /\ exitCode' = ParseFailureStatus
            /\ UNCHANGED <<useOpenGL, trace>>
       ELSE IF commandLine.quit
       THEN /\ pc' = "exit"
            /\ exitCode' = QuitStatus
            /\ UNCHANGED <<useOpenGL, trace>>
       ELSE /\ useOpenGL' = IF commandLine.disableOpenGL THEN FALSE ELSE useOpenGL
            /\ trace' = Append(trace, Event("loadPlugins", 0))
            /\ pc' = "started"
            /\ UNCHANGED exitCode
    /\ UNCHANGED <<commandLine, parsed, locals, warnings, seen>>

\* the least number of positional arguments an export takes
MinExportArgs == 2

\* whether the first positional argument is a filter
HasFilter(files) == Len(files) > 2

\* main: the argument check of the export and the locals it sets up
ExportArguments ==
    /\ pc = "started"
    /\ commandLine.exportMap
    /\ LET files == commandLine.filesToOpen
       IN  IF Len(files) < MinExportArgs
           THEN /\ warnings' = Append(warnings, "export syntax")
                /\ pc' = "exit"
                /\ exitCode' = 1
                /\ UNCHANGED <<locals, trace>>
           ELSE LET index == IF HasFilter(files) THEN 1 ELSE 0
                IN  /\ filter' = IF HasFilter(files) THEN files[1] ELSE NoString
                    /\ sourceFile' = files[index + 1]
                    /\ targetFile' = files[index + 2]
                    /\ suffix' = completeSuffix(files[index + 2])
                    /\ chosenWriter' = NoWriter
                    /\ \E registry \in Registries : writers' = registry
                    /\ trace' = Append(trace, Event("interfaces", 0))
                    /\ pos' = 1
                    /\ pc' = "resolve"
                    /\ UNCHANGED <<map, success, exitCode, warnings>>
    /\ UNCHANGED <<commandLine, parsed, useOpenGL, seen>>

\* the filter test with the case-insensitive flag left out
FilterMatchesCaseSensitive(nameFilters, f) == ListContains(nameFilters, f, CaseSensitive)

\* the suffix test comparing whole patterns instead of filtering
SuffixMatchesWhole(nameFilters, suf) == ListContains(nameFilters, suf, CaseInsensitive)

\* the test of the filter branch of the loop
FilterMatches(nameFilters, f) == ListContains(nameFilters, f, CaseInsensitive)

\* the test of the suffix branch of the loop
SuffixMatches(nameFilters, suf) == ListFilter(nameFilters, suf, CaseInsensitive) # <<>>

\* the loop body without the check for an already chosen writer
LoopBodyLastWins(nameFilters, f, suf, chosen, p) ==
    IF f # NoString
    THEN [chosen |-> IF FilterMatches(nameFilters, f) THEN p ELSE chosen,
          fail   |-> FALSE]
    ELSE [chosen |-> IF SuffixMatches(nameFilters, suf) THEN p ELSE chosen,
          fail   |-> FALSE]

\* the body of the foreach for one writer: the writer chosen after it, and
\* whether it returns with the non-unique extension error
LoopBody(nameFilters, f, suf, chosen, p) ==
    IF f # NoString
    THEN [chosen |-> IF FilterMatches(nameFilters, f) THEN p ELSE chosen,
          fail   |-> FALSE]
    ELSE IF SuffixMatches(nameFilters, suf)
    THEN IF chosen # NoWriter
         THEN [chosen |-> chosen, fail |-> TRUE]
         ELSE [chosen |-> p, fail |-> FALSE]
    ELSE [chosen |-> chosen, fail |-> FALSE]

\* main: one iteration of the foreach over the writers
ResolveStep ==
    /\ pc = "resolve"
    /\ pos <= Len(writers)
    /\ LET r == LoopBody(writers[pos], filter, suffix, chosenWriter, pos)
       IN  IF r.fail
           THEN /\ warnings' = Append(warnings, "non-unique extension")
                /\ pc' = "exit"
                /\ exitCode' = 1
                /\ UNCHANGED <<chosenWriter, pos>>
           ELSE /\ chosenWriter' = r.chosen
                /\ pos' = pos + 1
                /\ UNCHANGED <<pc, exitCode, warnings>>
    /\ UNCHANGED <<commandLine, parsed, useOpenGL, writers, filter, sourceFile,
                   targetFile, suffix, map, success, trace, seen>>

\* the step after the loop without the check of chosenWriter
ResolveEndUnchecked ==
    /\ pc = "resolve"
    /\ pos > Len(writers)
    /\ pc' = "load"
    /\ UNCHANGED <<commandLine, parsed, useOpenGL, locals, exitCode, warnings,
                   trace, seen>>

\* main: after the loop, the check that a writer was chosen
ResolveEnd ==
    /\ pc = "resolve"
    /\ pos > Len(writers)
    /\ IF chosenWriter = NoWriter
       THEN /\ warnings' = Append(warnings, "no exporter")
            /\ pc' = "exit"
            /\ exitCode' = 1
       ELSE /\ pc' = "load"
            /\ UNCHANGED <<warnings, exitCode>>
    /\ UNCHANGED <<commandLine, parsed, useOpenGL, locals, trace, seen>>

\* a map the reader returns, owning n tile sets
NewMap(n) == [ptr |-> "live", allocs |-> 1, frees |-> 0,
              tilesets |-> [i \in 1..n |-> 0]]

\* main: reader.readMap(sourceFile) and the check of its result
ReadMap ==
    /\ pc = "load"
    /\ trace' = Append(trace, Event("readMap", 0))
    /\ \/ /\ map' = NoMap
          /\ warnings' = Append(warnings, "load failed")
          /\ pc' = "exit"
          /\ exitCode' = 1
       \/ /\ \E n \in 0..MaxTilesets : map' = NewMap(n)
          /\ pc' = "write"
          /\ UNCHANGED <<warnings, exitCode>>
    /\ UNCHANGED <<commandLine, parsed, useOpenGL, writers, filter, sourceFile,
                   targetFile, suffix, pos, chosenWriter, success, seen>>

\* main: chosenWriter->write(map, targetFile)
WriteMap ==
    /\ pc = "write"
    /\ \E ok \in BOOLEAN : success' = ok
    /\ trace' = Append(trace, Event("write", chosenWriter))
    /\ pc' = "release"
    /\ UNCHANGED <<commandLine, parsed, useOpenGL, writers, filter, sourceFile,
                   targetFile, suffix, pos, chosenWriter, map, exitCode,
                   warnings, seen>>

\* delete map without qDeleteAll of its tile sets
ReleasedMapOnly(m) == [m EXCEPT !.frees = @ + 1, !.ptr = "deleted"]

\* qDeleteAll(map->tilesets()); delete map;
Released(m) ==
    [m EXCEPT !.tilesets = [i \in DOMAIN m.tilesets |-> m.tilesets[i] + 1],
              !.frees = @ + 1,
              !.ptr = "deleted"]

\* main: the release of the map after the write
ReleaseMap ==
    /\ pc = "release"
    /\ map' = Released(map)
    /\ trace' = Append(trace, Event("release", 0))
    /\ pc' = "report"
    /\ UNCHANGED <<commandLine, parsed, useOpenGL, writers, filter, sourceFile,
                   targetFile, suffix, pos, chosenWriter, success, exitCode,
                   warnings, seen>>

\* a return that ignores the result of the write
ExportStatusIgnored(ok) == 0

\* the value main returns after the write
ExportStatus(ok) == IF ~ok THEN 1 ELSE 0

\* main: the report of the write and the return
ExportReturn ==
    /\ pc = "report"
    /\ warnings' = IF ~success THEN Append(warnings, "export failed") ELSE warnings
    /\ exitCode' = ExportStatus(success)
    /\ pc' = "exit"
    /\ UNCHANGED <<commandLine, parsed, useOpenGL, locals, trace, seen>>

\* main: without export: the main window is built, shown, and files opened
GuiStart ==
    /\ pc = "started"
    /\ ~commandLine.exportMap
    /\ trace' = trace \o <<Event("MainWindow", 0), Event("show", 0)>>
    /\ pc' = "exec"
    /\ UNCHANGED <<commandLine, parsed, useOpenGL, locals, exitCode, warnings, seen>>

\* main: return a.exec()
GuiExec ==
    /\ pc = "exec"
    /\ \E rc \in {0, 1} : exitCode' = rc
    /\ pc' = "exit"
    /\ UNCHANGED <<commandLine, parsed, useOpenGL, locals, warnings, trace, seen>>

Next ==
    \/ \E name \in RegisteredOptions : ParseOption(name)
    \/ \E s \in Strings : ParsePositional(s)
    \/ \E name \in UnknownOptions : ParseUnknown(name)
    \/ ParseDone
    \/ MainAfterParse
    \/ ExportArguments
    \/ ResolveStep
    \/ ResolveEnd
    \/ ReadMap
    \/ WriteMap
    \/ ReleaseMap
    \/ ExportReturn
    \/ GuiStart
    \/ GuiExec

Spec == Init /\ [][Next]_vars

\* ------------------------------------------------------------ properties
\* vocabulary of the properties, stated on the inputs and the observations
Calls(e) == { i \in 1..Len(trace) : trace[i].e = e }

Called(e) == Calls(e) # {}

Warned(m) == \E i \in 1..Len(warnings) : warnings[i] = m

TimesWarned(m) == Cardinality({ i \in 1..Len(warnings) : warnings[i] = m })

Files == commandLine.filesToOpen

\* the run is an export run that got past the argument check
Exporting == Called("interfaces")

\* the resolution loop has ended, by running off the list or by an error
ResolutionOver == Exporting /\ (pc # "resolve")

\* lower-case form of a string
Lc(s) == [i \in 1..Len(s) |-> ToLower(s[i])]

\* sub occurs somewhere inside s, letter case ignored
OccursIn(sub, s) ==
    LET ls   == Lc(s)
        lsub == Lc(sub)
    IN  \E i \in 0..(Len(s) - Len(sub)) : SubSeq(ls, i + 1, i + Len(sub)) = lsub

\* the file name of a path and what follows its first dot
NameOf(path) ==
    LET seps == { i \in 1..Len(path) : path[i] = "/" }
        last == IF seps = {} THEN 0 ELSE CHOOSE i \in seps : \A j \in seps : j <= i
    IN  SubSeq(path, last + 1, Len(path))

AfterFirstDot(name) ==
    LET dots == { i \in 1..Len(name) : name[i] = "." }
    IN  IF dots = {} THEN <<>>
        ELSE SubSeq(name, (CHOOSE i \in dots : \A j \in dots : i <= j) + 1, Len(name))

\* the export's source, target and filter, read off the positional arguments
TargetArg == IF Len(Files) >= 3 THEN Files[3] ELSE Files[2]
SourceArg == IF Len(Files) >= 3 THEN Files[2] ELSE Files[1]
FilterArg == Files[1]

OnSuffixPath == Exporting /\ Len(Files) = 2
OnFilterPath == Exporting /\ Len(Files) >= 3

\* the writers of the registry that match, on each path
SuffixMatchers ==
    LET suf == AfterFirstDot(NameOf(TargetArg))
    IN  { i \in 1..Len(writers) :
            \E k \in 1..Len(writers[i]) : OccursIn(suf, writers[i][k]) }

FilterMatchers ==
    LET f == Lc(FilterArg)
    IN  { i \in 1..Len(writers) :
            \E k \in 1..Len(writers[i]) : Lc(writers[i][k]) = f }

Matchers == IF OnFilterPath THEN FilterMatchers ELSE SuffixMatchers

Largest(S) == CHOOSE i \in S : \A j \in S : j <= i
Smallest(S) == CHOOSE i \in S : \A j \in S : i <= j

\* a writer was selected: the run got past the resolution
Selected == Exporting /\ (pc \in {"load", "write", "release", "report"} \/ Called("readMap"))

\* the run asked for an export, parsed, and did not quit
ExportMode == commandLine.exportMap /\ Called("loadPlugins")

ResolutionError == Warned("no exporter") \/ Warned("non-unique extension")

\* C1: an argument list with an unknown flag ends the process with a non-zero
\* exit status, with no plugin loaded, no export run and no main window.
C1_UnknownFlagExitsNonZero ==
    (pc = "exit" /\ seen.unknown) => (exitCode # 0 /\ trace = <<>>)

\* C2: a map the reader returned is released exactly once, with its tile
\* sets, after the one write attempt and before the process returns, whether
\* the write succeeded or not; when the reader returns no map or resolution
\* fails, nothing is released and no map is retained.
C2_MapReleasedExactlyOnce ==
    /\ map.frees <= map.allocs
    /\ \A i \in DOMAIN map.tilesets : map.tilesets[i] = map.frees
    /\ map.frees = 1 =>
          /\ Cardinality(Calls("write")) = 1
          /\ \A w \in Calls("write") : \A r \in Calls("release") : w < r
    /\ \A w \in Calls("write") : trace[w].m = "live"
    /\ (pc = "exit" /\ map.allocs = 1) => (map.frees = 1 /\ map.ptr = "deleted")
    /\ map.allocs = 0 => (map.frees = 0 /\ map.ptr = "null" /\ ~Called("release"))
    /\ (pc = "exit" /\ ~Called("readMap")) => map.allocs = 0
    /\ Called("readMap") <=> (map.allocs = 1 \/ Warned("load failed"))

C2_Witness ==
    /\ pc = "exit"
    /\ map.frees = 1
    /\ ~success
    /\ Len(map.tilesets) >= 1
    /\ exitCode = 1

\* C3: on both paths a writer is selected only when exactly one writer of
\* the registry matches; with no match or more than one the export reports
\* an error and exits with 1, never picking the first or last match.
C3_SelectedOnlyWhenExactlyOneMatches ==
    Exporting =>
        /\ Selected => (Cardinality(Matchers) = 1 /\ chosenWriter \in Matchers)
        /\ (ResolutionOver /\ Cardinality(Matchers) # 1) =>
              (pc = "exit" /\ exitCode = 1 /\ ResolutionError /\ ~Called("write"))

\* C3 as amended: on the suffix path a writer is selected only when exactly
\* one matches, none or several being an error with exit 1; on the filter
\* path a writer is selected only when at least one matches, none being an
\* error with exit 1, and of several the last in registry order is taken.
C3_SelectedUniqueOrLastOfFilter ==
    /\ OnSuffixPath =>
          /\ Selected => (Cardinality(Matchers) = 1 /\ chosenWriter \in Matchers)
          /\ (ResolutionOver /\ Cardinality(Matchers) # 1) =>
                (pc = "exit" /\ exitCode = 1 /\ ResolutionError /\ ~Called("write"))
    /\ OnFilterPath =>
          /\ Selected => (Matchers # {} /\ chosenWriter = Largest(Matchers))
          /\ (ResolutionOver /\ Matchers = {}) =>
                (pc = "exit" /\ exitCode = 1 /\ ResolutionError /\ ~Called("write"))
    /\ \A w \in Calls("write") : trace[w].w \in Matchers

C3_Witness ==
    /\ OnFilterPath
    /\ Cardinality(Matchers) >= 2
    /\ Called("write")
    /\ pc = "exit"

\* C4: on the suffix path (two positional arguments) the outcome follows the
\* number of writers matching the suffix: none gives the no-exporter error
\* after the whole registry is scanned, one selects that writer, two or more
\* give the non-unique error at the second match without scanning further;
\* in both error cases neither the reader nor a write is invoked.
C4_SuffixPathOutcome ==
    OnSuffixPath =>
        /\ filter = NoString
        /\ ResolutionOver =>
              LET n == Cardinality(SuffixMatchers)
              IN  /\ n = 0 =>
                        /\ pc = "exit" /\ exitCode = 1
                        /\ warnings = <<"no exporter">>
                        /\ pos = Len(writers) + 1
                        /\ ~Called("readMap") /\ ~Called("write")
                  /\ n = 1 =>
                        /\ chosenWriter \in SuffixMatchers
                        /\ ~ResolutionError
                        /\ pos = Len(writers) + 1
                        /\ Called("readMap") \/ pc = "load"
                  /\ n >= 2 =>
                        /\ pc = "exit" /\ exitCode = 1
                        /\ warnings = <<"non-unique extension">>
                        /\ pos = Smallest(SuffixMatchers \ {Smallest(SuffixMatchers)})
                        /\ ~Called("readMap") /\ ~Called("write")

C4_Witness ==
    /\ OnSuffixPath
    /\ pc = "exit"
    /\ Warned("non-unique extension")
    /\ pos < Len(writers)

\* C5: on the filter path (three or more positional arguments) the chosen
\* writer is the last in registry order whose name filters contain the
\* filter string as a whole element, case ignored; the target's suffix plays
\* no part, the non-unique error is never reported, and the no-exporter
\* error is reported iff no writer matches the filter.
C5_FilterPathLastMatch ==
    OnFilterPath =>
        /\ filter = FilterArg /\ sourceFile = SourceArg /\ targetFile = TargetArg
        /\ ~Warned("non-unique extension")
        /\ LET scanned == { i \in FilterMatchers : i < pos }
           IN  chosenWriter = IF scanned = {} THEN NoWriter ELSE Largest(scanned)
        /\ ResolutionOver =>
              /\ pos = Len(writers) + 1
              /\ Warned("no exporter") <=> FilterMatchers = {}
              /\ FilterMatchers # {} => Selected

C5_Witness ==
    /\ OnFilterPath
    /\ pc = "load"
    /\ Cardinality(FilterMatchers) >= 2
    /\ chosenWriter = Largest(FilterMatchers)
    /\ chosenWriter \notin SuffixMatchers
    /\ SuffixMatchers # {}
    /\ filter # PatTmx

\* C6: in export mode the export proceeds only with exactly two positional
\* file arguments after an optional leading filter; every other count (0, 1,
\* 4 or more) is reported and ends the process with 1 before a writer is
\* resolved, the reader is invoked or anything is written.
C6_ExportTakesTwoFilesAndOptionalFilter ==
    (ExportMode /\ Len(Files) \notin {2, 3}) =>
        /\ ~Exporting /\ ~Called("readMap") /\ ~Called("write")
        /\ pc \in {"started", "exit"}
        /\ pc = "exit" => (exitCode = 1 /\ warnings = <<"export syntax">>)

\* C7: an export run that parsed and did not quit exits with 0 iff a writer
\* was resolved, the reader returned a map and the write returned true, and
\* with 1 otherwise; no step is tried twice.
C7_ExitCodeOfExport ==
    ExportMode =>
        /\ Cardinality(Calls("readMap")) <= 1
        /\ Cardinality(Calls("write")) <= 1
        /\ Len(warnings) <= 1
        /\ pc = "exit" =>
              /\ exitCode \in {0, 1}
              /\ exitCode = 0 <=>
                    /\ Len(Files) >= 2
                    /\ OnSuffixPath => Cardinality(SuffixMatchers) = 1
                    /\ OnFilterPath => FilterMatchers # {}
                    /\ map.allocs = 1
                    /\ Called("write") /\ success
              /\ exitCode = 1 <=> Len(warnings) = 1

C7_Witness ==
    /\ ExportMode
    /\ pc = "exit"
    /\ exitCode = 1
    /\ Called("write")
    /\ ~success

\* C8: on the suffix path the string matched is the complete suffix of the
\* target's file name (what follows its first dot), and a writer matches iff
\* that suffix occurs, case ignored, inside one of its name filters; so a
\* writer with the only pattern *.tmx does not match level1.tmx.bak and a
\* writer with the pattern *.tmx.bak does.
C8_CompleteSuffixDecidesMatch ==
    OnSuffixPath =>
        /\ suffix = AfterFirstDot(NameOf(TargetArg))
        /\ LET scanned == { i \in SuffixMatchers : i < pos }
           IN  chosenWriter = IF scanned = {} THEN NoWriter ELSE Smallest(scanned)
        /\ TargetArg = Level1TmxBak =>
              /\ suffix = <<"t","m","x",".","b","a","k">>
              /\ chosenWriter # NoWriter => writers[chosenWriter] = <<PatTmxBak>>
              /\ \A i \in 1..Len(writers) :
                    (i < pos /\ writers[i] = <<PatTmxBak>>) => chosenWriter # NoWriter

C8_Witness ==
    /\ OnSuffixPath
    /\ TargetArg = Level1TmxBak
    /\ Len(writers) >= 2
    /\ writers[1] = <<PatTmx>>
    /\ writers[2] = <<PatTmxBak>>
    /\ chosenWriter = 2
    /\ pc = "load"

\* the calls of a whole export run, in order
ExportOrder == <<"loadPlugins", "interfaces", "readMap", "write", "release">>

\* C9: an export run goes: plugins loaded, writer resolved, reader invoked,
\* write invoked, map released, exit. The reader is invoked at most once and
\* only after a writer is resolved, a write at most once, on the resolved
\* writer and on a map the reader returned; loading is never re-entered and
\* the main window is never built.
C9_ExportOrder ==
    ExportMode =>
        /\ Len(trace) <= Len(ExportOrder)
        /\ \A i \in 1..Len(trace) : trace[i].e = ExportOrder[i]
        /\ Called("readMap") =>
              (chosenWriter # NoWriter /\ pos = Len(writers) + 1 /\ pc # "resolve")
        /\ \A w \in Calls("write") :
              /\ trace[w].w = chosenWriter
              /\ trace[w].m = "live"
              /\ map.allocs = 1
        /\ pc = "load" => ~Called("readMap")
        /\ (pc = "exit" /\ Called("write")) => Called("release")
        /\ ~Called("MainWindow") /\ ~Called("show")

C9_Witness ==
    /\ ExportMode
    /\ pc = "exit"
    /\ [i \in 1..Len(trace) |-> trace[i].e] = ExportOrder
    /\ exitCode = 0

\* C10: when the quit flag or the version flag is anywhere in an argument
\* list that parses, the process exits with 0 without loading plugins,
\* resolving a writer, invoking the reader or a writer, or building the main
\* window; the version is printed once however often its flag is repeated.
C10_QuitAndVersionExitEarly ==
    /\ TimesWarned("version") = (IF seen.version > 0 THEN 1 ELSE 0)
    /\ (parsed = "ok" /\ (seen.quit \/ seen.version > 0)) =>
          /\ pc \in {"main", "exit"}
          /\ trace = <<>>
          /\ writers = <<>> /\ chosenWriter = NoWriter /\ map = NoMap
          /\ pc = "exit" => exitCode = 0

C10_Witness ==
    /\ pc = "exit"
    /\ parsed = "ok"
    /\ seen.version >= 2
    /\ ~seen.quit
    /\ commandLine.exportMap
    /\ Len(Files) >= 2

====
